---- MODULE Spec2Model ----
(***************************************************************************)
(* Model of syzygy_tables_info/views.py (syzygy-tables.info).              *)
(*                                                                         *)
(* The views are pure functions: kib formats a size, xhr_probe renders a   *)
(* Render record into a section of markup.  Each function is an operator   *)
(* computed as the code computes it, and each specification draws the      *)
(* function's input in Init and applies the function in an action.         *)
(*                                                                         *)
(* SpecKib    kib (views.py 38-43)                                         *)
(* SpecProbe  xhr_probe (views.py 182-251) on the Render records of the    *)
(*            probe of a position.  The code that builds a Render from a   *)
(*            position is not part of views.py; it is modelled from        *)
(*            sections 4.2-4.4 and 6 of the specification.                 *)
(* SpecStats  section_stats (views.py 440-506) on the statistics records   *)
(*            of an endgame class.  The code that builds the record from   *)
(*            the raw counters is not part of views.py; it is modelled     *)
(*            from section 4.5 of the specification.                       *)
(* SpecEndgames  the list of endgames (views.py 830-843) over the keys of  *)
(*            the statistics store.                                        *)
(***************************************************************************)
EXTENDS Integers, Sequences, FiniteSets, TLC

VARIABLES
    num,        \* kib: the argument num
    text,       \* kib: the returned string, NoText before the call
    divisions,  \* kib: how often "num /= 1024" ran before the return
    position,   \* the probed position: what the rules and the probe report
    render,     \* xhr_probe: the argument render, NoRender before the probe
    page,       \* xhr_probe: the returned section, NoPage before the call
    counters,   \* the raw statistics of an endgame class
    stats,      \* section_stats: the argument stats, NoStats before it is built
    section,    \* section_stats: the returned section, NoSection before the call
    store,      \* endgames: the material keys of stats.STATS, in its order
    listing     \* endgames: the rendered sections, NoListing before the call

vars == <<num, text, divisions, position, render, page,
          counters, stats, section, store, listing>>

\* None where a string is expected
None == "None"

\* an optional number: NoInt is None, <<v>> is the number v
NoInt == <<>>

NoPosition == [fen |-> None]

NoRender == [status |-> None]

NoPage == [status |-> None]

NoCounters == [counted |-> FALSE]

NoStats == [built |-> FALSE]

NoSection == [id |-> None]

NoStore == [loaded |-> FALSE]

NoListing == [rendered |-> FALSE]

\* nothing of section_stats or of endgames is in use
StatsIdle == counters = NoCounters /\ stats = NoStats /\ section = NoSection

EndgamesIdle == store = NoStore /\ listing = NoListing

----------------------------------------------------------------------------
(* kib (views.py 38-43)                                                    *)
(*                                                                         *)
(* A number is [neg, tenths, exp]: the float (-1)^neg * tenths/10 *        *)
(* 1024^exp.  Division by 1024 is exact in binary floating point, so it is *)
(* exp - 1.  "%.1f" prints the value rounded to one fractional digit, ties *)
(* to even.  A formatted string "%.1f %s" is [neg, tenths, exp, unit]: the *)
(* sign, the number tenths * 1024^exp / 10 written with one fractional     *)
(* digit, a space and the unit.  exp is 0 unless num was still a multiple  *)
(* of 1024 when it was printed.                                            *)

\* views.py 40, 42: the divisor and the magnitude limit
Kilo == 1024

\* views.py 39: the units of the loop
Units == <<"KiB", "MiB", "GiB", "TiB", "PiB", "EiB", "ZiB">>

\* views.py 43: the unit printed after the loop
LastUnit == "Yi"

NoText == [neg |-> FALSE, tenths |-> 0, exp |-> 0, unit |-> None]

RECURSIVE Pow1024(_)
Pow1024(k) == IF k = 0 THEN 1 ELSE Kilo * Pow1024(k - 1)

\* abs(num) <= 1024 in place of abs(num) < 1024
AbsAtMostKilo(n) ==
    IF n.exp > 1 THEN n.tenths = 0
    ELSE IF n.exp = 1 THEN n.tenths <= 10
    ELSE \/ n.tenths \div Pow1024(-n.exp) < 10 * Kilo
         \/ n.tenths \div Pow1024(-n.exp) = 10 * Kilo /\ n.tenths % Pow1024(-n.exp) = 0

\* num < 1024 in place of abs(num) < 1024
BelowKiloSigned(n) ==
    \/ n.neg
    \/ IF n.exp > 1 THEN n.tenths = 0
       ELSE IF n.exp = 1 THEN n.tenths < 10
       ELSE n.tenths \div Pow1024(-n.exp) < 10 * Kilo

\* views.py 40: abs(num) < 1024, i.e. tenths * 1024^exp < 10 * 1024, divided
\* through so that no product leaves the integers of the checker: with
\* exp = 1 it is tenths < 10, above that only zero is below the limit.
AbsBelowKilo(n) ==
    IF n.exp > 1 THEN n.tenths = 0
    ELSE IF n.exp = 1 THEN n.tenths < 10
    ELSE n.tenths \div Pow1024(-n.exp) < 10 * Kilo

\* views.py 42: num /= 1024
DivKilo(n) == [n EXCEPT !.exp = @ - 1]

\* a / d rounded to the nearest integer, ties to the even one
RoundHalfEven(a, d) ==
    LET q == a \div d
        r == a % d
    IN  IF 2 * r < d THEN q
        ELSE IF 2 * r > d THEN q + 1
        ELSE IF q % 2 = 0 THEN q ELSE q + 1

\* views.py 41, 43: "%3.1f %s" % (num, unit); the width 3 never pads, "0.0"
\* has three characters.  The sign of the float is kept, -0.0 included.
FormatOneDigit(n, unit) ==
    IF n.exp >= 0
    THEN [neg |-> n.neg, tenths |-> n.tenths, exp |-> n.exp, unit |-> unit]
    ELSE [neg |-> n.neg, tenths |-> RoundHalfEven(n.tenths, Pow1024(-n.exp)),
          exp |-> 0, unit |-> unit]

\* views.py 39-43: the loop from unit i on, with the divisions done so far
RECURSIVE KibLoop(_, _)
KibLoop(n, i) ==
    IF i > Len(Units)
    THEN [text |-> FormatOneDigit(n, LastUnit), divisions |-> i - 1]
    ELSE IF AbsBelowKilo(n)
    THEN [text |-> FormatOneDigit(n, Units[i]), divisions |-> i - 1]
    ELSE KibLoop(DivKilo(n), i + 1)

\* views.py 38-43
Kib(n) == KibLoop(n, 1).text

KibDivisions(n) == KibLoop(n, 1).divisions

----------------------------------------------------------------------------
(* The arguments of kib.  Whole numbers m * 1024^e (the callers pass whole *)
(* KiB counts: views.py 367-381, 826) with m up to MaxMantissa or just     *)
(* below 1024^2, and the fractions t/10 below 1024.  All of them are       *)
(* floats whose division by 1024 is exact.                                 *)

MaxMantissa == 2100

\* how many mantissas just below 1024^2 are drawn
TopMantissas == 40

\* the largest argument is below 1024^(MaxExp + 2)
MaxExp == 8

KibWhole ==
    { [neg |-> s, tenths |-> 10 * m, exp |-> e] :
        s \in BOOLEAN,
        m \in (1..MaxMantissa) \cup ((Kilo * Kilo - TopMantissas)..(Kilo * Kilo - 1)),
        e \in 0..MaxExp }

KibFractions ==
    { [neg |-> s, tenths |-> t, exp |-> 0] : s \in BOOLEAN, t \in 0..(10 * Kilo - 1) }

KibInputs == KibWhole \cup KibFractions

InitKib ==
    /\ num \in KibInputs
    /\ text = NoText
    /\ divisions = 0
    /\ position = NoPosition
    /\ render = NoRender
    /\ page = NoPage
    /\ StatsIdle
    /\ EndgamesIdle

\* the call kib(num)
KibCall ==
    /\ text = NoText
    /\ text' = Kib(num)
    /\ divisions' = KibDivisions(num)
    /\ UNCHANGED <<num, position, render, page>>
    /\ UNCHANGED <<counters, stats, section, store, listing>>

NextKib == KibCall

SpecKib == InitKib /\ [][NextKib]_vars

----------------------------------------------------------------------------
(* Properties of kib, checked under SpecKib.                               *)

\* the float -num
Negate(n) == [n EXCEPT !.neg = ~@]

\* the magnitude of num is t/10 (t a whole number of tenths)
HasMagnitude(n, t) ==
    \/ n.exp = 0 /\ n.tenths = t
    \/ n.exp = 1 /\ t % Kilo = 0 /\ n.tenths = t \div Kilo

\* the magnitude of num is below t/10
MagnitudeBelow(n, t) ==
    \/ n.tenths = 0
    \/ n.exp = 0 /\ n.tenths < t
    \/ n.exp = 1 /\ n.tenths < (t + Kilo - 1) \div Kilo

\* C1: kib respects the unit boundaries: kib(1024) = "1.0 MiB",
\* kib(1023.9) = "1023.9 KiB", kib(0) = "0.0 KiB"; every argument of magnitude
\* below 1024 is printed unchanged in KiB with no division, and every argument
\* of magnitude exactly 1024 is printed as 1.0 in MiB.
KibUnitBoundaries ==
    text # NoText =>
        /\ (~num.neg /\ HasMagnitude(num, 10240))
                => text = [neg |-> FALSE, tenths |-> 10, exp |-> 0, unit |-> "MiB"]
        /\ (~num.neg /\ HasMagnitude(num, 10239))
                => text = [neg |-> FALSE, tenths |-> 10239, exp |-> 0, unit |-> "KiB"]
        /\ (~num.neg /\ HasMagnitude(num, 0))
                => text = [neg |-> FALSE, tenths |-> 0, exp |-> 0, unit |-> "KiB"]
        /\ MagnitudeBelow(num, 10240)
                => /\ text.unit = "KiB"
                   /\ divisions = 0
                   /\ text.neg = num.neg /\ text.tenths = num.tenths /\ text.exp = 0
        /\ HasMagnitude(num, 10240)
                => /\ text.unit = "MiB"
                   /\ divisions = 1
                   /\ text.neg = num.neg /\ text.tenths = 10 /\ text.exp = 0

\* kib(1024) has returned "1.0 MiB"
KibUnitBoundariesWitness ==
    /\ text # NoText
    /\ ~num.neg /\ HasMagnitude(num, 10240)
    /\ text.unit = "MiB" /\ text.tenths = 10

\* the unit sequence C2 states
ClaimedUnits == <<"KiB", "MiB", "GiB", "TiB", "PiB", "EiB", "ZiB", "YiB">>

\* the smallest number of divisions by 1024, from k on, after which the
\* magnitude of n is below 1024, and last when so many are not enough
RECURSIVE SmallestDivisions(_, _, _)
SmallestDivisions(n, k, last) ==
    IF k = last \/ AbsBelowKilo([n EXCEPT !.exp = @ - k]) THEN k
    ELSE SmallestDivisions(n, k + 1, last)

\* kib(n) as described over the unit sequence units: the k-th unit and the
\* value n / 1024^k, k the smallest sufficient number of divisions
DescribedKib(n, units) ==
    LET k == SmallestDivisions(n, 0, Len(units) - 1)
    IN  [text      |-> FormatOneDigit([n EXCEPT !.exp = @ - k], units[k + 1]),
         divisions |-> k]

\* C2: kib divides by 1024 successively and prints the k-th unit of KiB, MiB,
\* GiB, TiB, PiB, EiB, ZiB, YiB, k the smallest number of divisions after
\* which the magnitude is below 1024 (YiB when seven divisions are not
\* enough), together with the value n / 1024^k.
KibUnitSequence ==
    text # NoText =>
        /\ text = DescribedKib(num, ClaimedUnits).text
        /\ divisions = DescribedKib(num, ClaimedUnits).divisions

\* What the code does in place of C2: the same, with the unit after ZiB
\* printed as "Yi".
KibUnitSequenceAsCoded ==
    text # NoText =>
        /\ text = DescribedKib(num, Units \o <<LastUnit>>).text
        /\ divisions = DescribedKib(num, Units \o <<LastUnit>>).divisions

\* C3: kib tests the magnitude of its argument: kib(-x) prints the same
\* unit after the same number of divisions as kib(x), and the same number
\* with the sign reversed.
KibNegation ==
    text # NoText =>
        LET r == KibLoop(Negate(num), 1)
        IN  /\ r.text.unit = text.unit
            /\ r.divisions = divisions
            /\ r.text.tenths = text.tenths /\ r.text.exp = text.exp
            /\ r.text.neg = ~text.neg

\* kib has printed a negative argument in a unit above KiB
KibNegationWitness ==
    /\ text # NoText
    /\ num.neg /\ num.tenths > 0
    /\ divisions >= 2
    /\ text.neg /\ text.unit = Units[divisions + 1]

----------------------------------------------------------------------------
(* The probe of a position (specification, sections 3, 4.2-4.4, 6).        *)
(*                                                                         *)
(* The rules collaborator reports whether the position is legal, whether   *)
(* it is a draw by insufficient material, whether the side to move is in   *)
(* check, and the legal moves in its order; the probe collaborator reports *)
(* a result for each legal move, or none.  A legal move is [uci, probe]:   *)
(* uci stands for its notation and for the position it leads to.           *)

\* views.py 639-643: the five values of WDL, for the side that moves
Win == 2
CursedWin == 1
Draw == 0
BlessedLoss == -1
Loss == -2

\* views.py 657, 677: the DTZ magnitudes above it are drawn under the 50-move rule
FiftyMoveLimit == 100

\* the fen of a position: chess.STARTING_FEN (views.py 231) or another one
StartingFen == "rnbqkbnr/pppppppp/8/8/8/8/PPPPPPPP/RNBQKBNR w KQkq - 0 1"
OtherFen == "8/8/8/8/8/8/8/8 w - - 0 1"

MaxMoves == 3

\* no probe result for a move
NoProbe == [probed |-> FALSE]

\* The results the probe reports (sections 3 and 6): one of the five
\* values with a signed DTZ, which may be absent.  The backend is free in
\* what it pairs: beside the results whose DTZ fits the value (a loss with
\* DTZ -1, a win and a loss limited by the 50-move rule with a magnitude
\* above 100, a draw with DTZ 0, a win that ends the game with DTZ 0)
\* there are a win with a DTZ above 100, a limited win with DTZ 100 and a
\* draw with a DTZ other than 0.
ProbeResults ==
    { [probed |-> TRUE, wdl |-> Win, dtz |-> d] :
        d \in {NoInt, <<0>>, <<FiftyMoveLimit + 1>>} }
    \cup
    { [probed |-> TRUE, wdl |-> CursedWin, dtz |-> d] :
        d \in {<<FiftyMoveLimit>>, <<FiftyMoveLimit + 1>>} }
    \cup
    { [probed |-> TRUE, wdl |-> Draw, dtz |-> d] : d \in {<<0>>, <<1>>} }
    \cup
    { [probed |-> TRUE, wdl |-> BlessedLoss, dtz |-> <<-(FiftyMoveLimit + 1)>>],
      [probed |-> TRUE, wdl |-> Loss, dtz |-> <<-1>>] }

\* the legal moves in the order of the rules collaborator: the notations
\* 1..n ascending or descending, each move with a probe result or none
MoveLists ==
    UNION { { [i \in 1..n |-> [uci   |-> IF up THEN i ELSE n + 1 - i,
                               probe |-> f[i]]] :
                f \in [1..n -> ProbeResults \cup {NoProbe}], up \in BOOLEAN } :
            n \in 0..MaxMoves }

Colors == {"white", "black"}

OtherColor(c) == IF c = "white" THEN "black" ELSE "white"

\* The positions probed.  No legal position is both a draw by insufficient
\* material and a checkmate.  The starting position is legal, white moves,
\* and no move of it has a probe result.
Positions ==
    { p \in [fen : {OtherFen}, legal : BOOLEAN, insufficient : BOOLEAN,
             check : BOOLEAN, turn : Colors, moves : MoveLists] :
        ~(p.legal /\ p.insufficient /\ p.check /\ p.moves = <<>>) }
    \cup
    { p \in [fen : {StartingFen}, legal : {TRUE}, insufficient : {FALSE},
             check : {FALSE}, turn : {"white"}, moves : MoveLists] :
        /\ p.moves # <<>>
        /\ \A i \in 1..Len(p.moves) : p.moves[i].probe = NoProbe }

\* section 4.3: the category of a move by its probe result
Category(probe) ==
    IF probe = NoProbe THEN "unknown"
    ELSE IF probe.wdl = Win THEN "winning"
    ELSE IF probe.wdl = CursedWin THEN "cursed"
    ELSE IF probe.wdl = Draw THEN "drawing"
    ELSE IF probe.wdl = BlessedLoss THEN "blessed"
    ELSE "losing"

Categories == {"winning", "cursed", "drawing", "blessed", "losing", "unknown"}

Abs(v) == IF v < 0 THEN -v ELSE v

\* section 4.3: the distance displayed for a move: the magnitude the probe
\* reports, and none for a drawing or unknown move
DisplayedDistance(probe) ==
    IF Category(probe) \in {"drawing", "unknown"} THEN NoInt
    ELSE IF probe.dtz = NoInt THEN NoInt
    ELSE <<Abs(probe.dtz[1])>>

\* section 3, RenderMove: the record xhr_probe.move reads (views.py 184-187);
\* the badge names the category
Classify(m) ==
    [uci   |-> m.uci,
     san   |-> m.uci,
     fen   |-> m.uci,
     dtm   |-> DisplayedDistance(m.probe),
     badge |-> Category(m.probe)]

\* section 4.3: the moves of one category, in the order of the legal moves
CategoryMoves(moves, c) ==
    SelectSeq([i \in 1..Len(moves) |-> Classify(moves[i])],
              LAMBDA r : r.badge = c)

\* section 4.2, step 4: the best value for the side to move among the moves
\* that have a probe result
TablebaseOutcome(moves) ==
    LET known == { moves[i].probe.wdl :
                     i \in { j \in 1..Len(moves) : moves[j].probe # NoProbe } }
    IN  IF known = {} THEN "unknown"
        ELSE IF Win \in known THEN "win"
        ELSE IF CursedWin \in known THEN "cursed-win"
        ELSE IF Draw \in known THEN "draw"
        ELSE IF BlessedLoss \in known THEN "blessed-loss"
        ELSE "loss"

\* section 4.2, steps 1-4: the status of a position
Status(p) ==
    IF ~p.legal THEN "illegal"
    ELSE IF p.insufficient THEN "insufficient-material"
    ELSE IF p.moves = <<>> THEN (IF p.check THEN "checkmate" ELSE "stalemate")
    ELSE TablebaseOutcome(p.moves)

\* the side that wins in a status, None where no side does
WinningSide(p) ==
    IF Status(p) \in {"win", "cursed-win"} THEN p.turn
    ELSE IF Status(p) \in {"loss", "blessed-loss", "checkmate"} THEN OtherColor(p.turn)
    ELSE None

\* sections 4.2 and 6: the Render of a position, with the fields xhr_probe
\* reads (views.py 196-251).  An illegal position is not processed further.
\* The flags blessed_loss and cursed_win tell what the tablebase says of a
\* legal position, also where insufficient material overrides it.
Resolve(p) ==
    LET moves == IF p.legal THEN p.moves ELSE <<>>
    IN  [fen                   |-> p.fen,
         turn                  |-> p.turn,
         status                |-> Status(p),
         winning_side          |-> WinningSide(p),
         frustrated            |-> Status(p) \in {"cursed-win", "blessed-loss"},
         illegal               |-> ~p.legal,
         insufficient_material |-> p.legal /\ p.insufficient,
         blessed_loss          |-> TablebaseOutcome(moves) = "blessed-loss",
         cursed_win            |-> TablebaseOutcome(moves) = "cursed-win",
         winning_moves         |-> CategoryMoves(moves, "winning"),
         unknown_moves         |-> CategoryMoves(moves, "unknown"),
         cursed_moves          |-> CategoryMoves(moves, "cursed"),
         drawing_moves         |-> CategoryMoves(moves, "drawing"),
         blessed_moves         |-> CategoryMoves(moves, "blessed"),
         losing_moves          |-> CategoryMoves(moves, "losing")]

----------------------------------------------------------------------------
(* xhr_probe (views.py 182-251): the section rendered from a Render.  An   *)
(* element is a record of its attributes and children; children that are   *)
(* None are left out, as tinyhtml does.  The statistics, the dependencies   *)
(* and the homepage text that follow (views.py 253-436) are not part of    *)
(* this model.                                                             *)

\* the truth value Python gives an optional number: None and 0 are false
Truthy(v) == v # NoInt /\ v[1] # 0

\* "is not None" in place of the truth value of m["dtm"]
MoveNotNone(m) ==
    [klass    |-> "li",
     href     |-> m.fen,
     data_uci |-> m.uci,
     children |-> <<[klass |-> None, text |-> <<"san", m.san>>]>>
                  \o (IF m.dtm # NoInt
                      THEN <<[klass |-> "badge", text |-> <<"DTM", m.dtm[1]>>]>>
                      ELSE <<>>)
                  \o <<[klass |-> "badge", text |-> <<m.badge>>]>>]

\* views.py 183-188: move(m), a link with the notation, the badge "DTM n"
\* if m["dtm"] is true, and the badge of the move
Move(m) ==
    [klass    |-> "li",
     href     |-> m.fen,
     data_uci |-> m.uci,
     children |-> <<[klass |-> None, text |-> <<"san", m.san>>]>>
                  \o (IF Truthy(m.dtm)
                      THEN <<[klass |-> "badge", text |-> <<"DTM", m.dtm[1]>>]>>
                      ELSE <<>>)
                  \o <<[klass |-> "badge", text |-> <<m.badge>>]>>]

\* the moves rendered last to first
MovesReversed(moves) ==
    [i \in 1..Len(moves) |-> Move(moves[Len(moves) + 1 - i])]

\* views.py 203, 206, 209, 212, 215, 218: move(m) for m in a move list
Moves(moves) ==
    [i \in 1..Len(moves) |-> Move(moves[i])]

\* views.py 202, 208, 214, 217: the class f"list-group {turn}-turn"
TurnKlass(r) ==
    <<"list-group", IF r.turn = "white" THEN "white-turn" ELSE "black-turn">>

\* the group "cursed" filled from render["winning_moves"]
MoveGroupsCursedFromWinning(r) ==
    <<[id |-> "winning", klass |-> TurnKlass(r), children |-> Moves(r.winning_moves)],
      [id |-> "unknown", klass |-> <<"list-group">>, children |-> Moves(r.unknown_moves)],
      [id |-> "cursed", klass |-> TurnKlass(r), children |-> Moves(r.winning_moves)],
      [id |-> "drawing", klass |-> <<"list-group">>, children |-> Moves(r.drawing_moves)],
      [id |-> "blessed", klass |-> TurnKlass(r), children |-> Moves(r.blessed_moves)],
      [id |-> "losing", klass |-> TurnKlass(r), children |-> Moves(r.losing_moves)]>>

\* the group "blessed" filled from render["losing_moves"]
MoveGroupsBlessedFromLosing(r) ==
    <<[id |-> "winning", klass |-> TurnKlass(r), children |-> Moves(r.winning_moves)],
      [id |-> "unknown", klass |-> <<"list-group">>, children |-> Moves(r.unknown_moves)],
      [id |-> "cursed", klass |-> TurnKlass(r), children |-> Moves(r.cursed_moves)],
      [id |-> "drawing", klass |-> <<"list-group">>, children |-> Moves(r.drawing_moves)],
      [id |-> "blessed", klass |-> TurnKlass(r), children |-> Moves(r.losing_moves)],
      [id |-> "losing", klass |-> TurnKlass(r), children |-> Moves(r.losing_moves)]>>

\* the group "unknown" filled from render["drawing_moves"]
MoveGroupsUnknownFromDrawing(r) ==
    <<[id |-> "winning", klass |-> TurnKlass(r), children |-> Moves(r.winning_moves)],
      [id |-> "unknown", klass |-> <<"list-group">>, children |-> Moves(r.drawing_moves)],
      [id |-> "cursed", klass |-> TurnKlass(r), children |-> Moves(r.cursed_moves)],
      [id |-> "drawing", klass |-> <<"list-group">>, children |-> Moves(r.drawing_moves)],
      [id |-> "blessed", klass |-> TurnKlass(r), children |-> Moves(r.blessed_moves)],
      [id |-> "losing", klass |-> TurnKlass(r), children |-> Moves(r.losing_moves)]>>

\* views.py 202-219: the six move lists, in the order of the page
MoveGroups(r) ==
    <<[id |-> "winning", klass |-> TurnKlass(r), children |-> Moves(r.winning_moves)],
      [id |-> "unknown", klass |-> <<"list-group">>, children |-> Moves(r.unknown_moves)],
      [id |-> "cursed", klass |-> TurnKlass(r), children |-> Moves(r.cursed_moves)],
      [id |-> "drawing", klass |-> <<"list-group">>, children |-> Moves(r.drawing_moves)],
      [id |-> "blessed", klass |-> TurnKlass(r), children |-> Moves(r.blessed_moves)],
      [id |-> "losing", klass |-> TurnKlass(r), children |-> Moves(r.losing_moves)]>>

\* the class named after the side to move in place of the winning side
WinKlassOfTurn(r) ==
    IF r.winning_side = None THEN <<>>
    ELSE IF r.turn = "white" THEN <<"white-win">> ELSE <<"black-win">>

\* views.py 197: the class f"{winning_side}-win", left out without a side
WinKlass(r) ==
    IF r.winning_side = None THEN <<>>
    ELSE IF r.winning_side = "white" THEN <<"white-win">> ELSE <<"black-win">>

\* the class "frustrated" set from render["cursed_win"]
StatusHeaderCursedOnly(r) ==
    [id    |-> "status",
     klass |-> WinKlass(r) \o (IF r.cursed_win THEN <<"frustrated">> ELSE <<>>),
     text  |-> r.status]

\* views.py 196-199: the header with the status line
StatusHeader(r) ==
    [id    |-> "status",
     klass |-> WinKlass(r) \o (IF r.frustrated THEN <<"frustrated">> ELSE <<>>),
     text  |-> r.status]

\* views.py 224, 226-227, 230, 232, 234-235, 237-238: the texts of the info block
IllegalText == "The given position is not a legal chess position."
InsufficientText ==
    "The game is drawn because with the remaining material no sequence of legal moves can lead to checkmate."
NotSolvedText == "Chess is not yet solved."
UnknownText ==
    "Syzygy tables only provide information for positions with up to 7 pieces and no castling rights."
BlessedLossText ==
    "This is a blessed loss. Mate can be forced, but a draw can be achieved under the fifty-move rule."
CursedWinText ==
    "This is a cursed win. Mate can be forced, but a draw can be achieved under the fifty-move rule."

\* the info block without its first condition
InfoNoIllegal(r) ==
    IF r.insufficient_material THEN <<InsufficientText>>
    ELSE IF r.unknown_moves # <<>>
    THEN (IF r.fen = StartingFen THEN <<NotSolvedText>> ELSE <<>>) \o <<UnknownText>>
    ELSE IF r.blessed_loss THEN <<BlessedLossText>>
    ELSE IF r.cursed_win THEN <<CursedWinText>>
    ELSE <<>>

\* the info block with the unknown moves tested before the material
InfoUnknownFirst(r) ==
    IF r.illegal THEN <<IllegalText>>
    ELSE IF r.unknown_moves # <<>>
    THEN (IF r.fen = StartingFen THEN <<NotSolvedText>> ELSE <<>>) \o <<UnknownText>>
    ELSE IF r.insufficient_material THEN <<InsufficientText>>
    ELSE IF r.blessed_loss THEN <<BlessedLossText>>
    ELSE IF r.cursed_win THEN <<CursedWinText>>
    ELSE <<>>

\* the info block with its first condition negated
InfoIllegalNegated(r) ==
    IF ~r.illegal THEN <<IllegalText>>
    ELSE IF r.insufficient_material THEN <<InsufficientText>>
    ELSE IF r.unknown_moves # <<>>
    THEN (IF r.fen = StartingFen THEN <<NotSolvedText>> ELSE <<>>) \o <<UnknownText>>
    ELSE IF r.blessed_loss THEN <<BlessedLossText>>
    ELSE IF r.cursed_win THEN <<CursedWinText>>
    ELSE <<>>

\* the info block with the blessed loss tested before the unknown moves
InfoBlessedBeforeUnknown(r) ==
    IF r.illegal THEN <<IllegalText>>
    ELSE IF r.insufficient_material THEN <<InsufficientText>>
    ELSE IF r.blessed_loss THEN <<BlessedLossText>>
    ELSE IF r.unknown_moves # <<>>
    THEN (IF r.fen = StartingFen THEN <<NotSolvedText>> ELSE <<>>) \o <<UnknownText>>
    ELSE IF r.cursed_win THEN <<CursedWinText>>
    ELSE <<>>

\* views.py 222-240: the paragraphs of the info block
Info(r) ==
    IF r.illegal THEN <<IllegalText>>
    ELSE IF r.insufficient_material THEN <<InsufficientText>>
    ELSE IF r.unknown_moves # <<>>
    THEN (IF r.fen = StartingFen THEN <<NotSolvedText>> ELSE <<>>) \o <<UnknownText>>
    ELSE IF r.blessed_loss THEN <<BlessedLossText>>
    ELSE IF r.cursed_win THEN <<CursedWinText>>
    ELSE <<>>

\* the links left out also for a draw by insufficient material
MetaLinksUnlessInsufficient(r) ==
    IF ~r.illegal /\ ~r.insufficient_material
    THEN <<"Download DTZ mainline", "lichess.org">>
    ELSE <<>>

\* views.py 241-251: the links to the DTZ mainline and to lichess.org
MetaLinks(r) ==
    IF ~r.illegal THEN <<"Download DTZ mainline", "lichess.org">> ELSE <<>>

\* views.py 182-251
XhrProbe(r) ==
    [status |-> StatusHeader(r),
     groups |-> MoveGroups(r),
     info   |-> Info(r),
     links  |-> MetaLinks(r)]

----------------------------------------------------------------------------
(* SpecProbe: a position is probed and its Render is rendered.             *)

InitProbe ==
    /\ position \in Positions
    /\ render = NoRender
    /\ page = NoPage
    /\ num = [neg |-> FALSE, tenths |-> 0, exp |-> 0]
    /\ text = NoText
    /\ divisions = 0
    /\ StatsIdle
    /\ EndgamesIdle

\* the Render of the position is built
Probe ==
    /\ position # NoPosition
    /\ render = NoRender
    /\ render' = Resolve(position)
    /\ UNCHANGED <<num, text, divisions, position, page>>
    /\ UNCHANGED <<counters, stats, section, store, listing>>

\* the call xhr_probe(render)
XhrProbeCall ==
    /\ render # NoRender
    /\ page = NoPage
    /\ page' = XhrProbe(render)
    /\ UNCHANGED <<num, text, divisions, position, render>>
    /\ UNCHANGED <<counters, stats, section, store, listing>>

NextProbe == Probe \/ XhrProbeCall

SpecProbe == InitProbe /\ [][NextProbe]_vars

\* nothing of kib or of xhr_probe is in use
KibIdle ==
    /\ num = [neg |-> FALSE, tenths |-> 0, exp |-> 0]
    /\ text = NoText
    /\ divisions = 0

ProbeIdle == position = NoPosition /\ render = NoRender /\ page = NoPage

----------------------------------------------------------------------------
(* The statistics of an endgame class.  section_stats (views.py 440-506)   *)
(* renders a statistics record; the code that builds the record from the   *)
(* raw counters is not part of views.py and is modelled from section 4.5   *)
(* of the specification.  A percentage is kept in tenths of a percent.     *)

\* the largest number of plies a histogram has here
MaxPlies == 3

\* a count large enough for a count of 1 to be 0.0 percent of the total
BigCount == 3000

\* the counts of a histogram bucket
BucketCounts == {0, 1, 2}

\* the histograms by DTZ ply, index 1 being ply 0; <<>> is no histogram
Histograms == UNION { [1..n -> BucketCounts] : n \in 0..MaxPlies }

\* the combinations of side to move and 50-move limitation, in the order
\* of the longest list
Combinations ==
    << [side |-> "white", limited |-> FALSE], [side |-> "white", limited |-> TRUE],
       [side |-> "black", limited |-> FALSE], [side |-> "black", limited |-> TRUE] >>

\* no position qualifies for a combination
NoExample == [found |-> FALSE]

\* the extremal position of each combination, where there is one
Examples ==
    [1..Len(Combinations) -> {NoExample, [found |-> TRUE, ply |-> 7]}]

\* the raw statistics of an endgame class: the five counts, the stated
\* total (the sum of the counts, or 0), the histogram, the examples
Counters ==
    { [counted |-> TRUE, material |-> "KRvK",
       white |-> w, cursed |-> c, draws |-> d, blessed |-> b, black |-> k,
       total |-> IF zero THEN 0 ELSE w + c + d + b + k,
       buckets |-> hist, examples |-> e] :
        w \in {0, 1, BigCount}, c \in {0, 1}, d \in {0, 1}, b \in {0, 1}, k \in {0, 1},
        zero \in BOOLEAN, hist \in Histograms, e \in Examples }

\* section 4.5: round(count / total * 100, 1) in tenths of a percent, 0.0
\* without a division when the total is 0
Percentage(count, total) ==
    IF total = 0 THEN 0 ELSE RoundHalfEven(count * 1000, total)

\* the largest count of a series
RECURSIVE MaxCount(_)
MaxCount(buckets) ==
    IF buckets = <<>> THEN 0
    ELSE LET rest == MaxCount(Tail(buckets))
         IN  IF Head(buckets) > rest THEN Head(buckets) ELSE rest

\* the smallest width of a bar of a nonzero count
MinWidth == 1

\* section 4.5: the width of a bar, linear in the count
Width(count, maximum) ==
    IF (count * 100) \div maximum < MinWidth THEN MinWidth ELSE (count * 100) \div maximum

\* the marker of a run of zero counts, none for an empty run
EmptyRow(run) == IF run = 0 THEN <<>> ELSE <<[empty |-> run]>>

\* section 4.5: zero-run compression from index i on, run zero counts
\* pending; a nonzero count or the end of the data emits the pending run
RECURSIVE Compress(_, _, _, _)
Compress(buckets, i, run, maximum) ==
    IF i > Len(buckets) THEN EmptyRow(run)
    ELSE IF buckets[i] = 0 THEN Compress(buckets, i + 1, run + 1, maximum)
    ELSE EmptyRow(run)
         \o <<[empty |-> 0, ply |-> i - 1, num |-> buckets[i],
               width |-> Width(buckets[i], maximum), active |-> TRUE]>>
         \o Compress(buckets, i + 1, 0, maximum)

\* section 4.5: the longest list, an entry per combination with an example
RECURSIVE Longest(_, _)
Longest(examples, i) ==
    IF i > Len(Combinations) THEN <<>>
    ELSE (IF examples[i].found
          THEN <<[fen |-> <<"fen", i>>, label |-> <<Combinations[i], examples[i].ply>>]>>
          ELSE <<>>)
         \o Longest(examples, i + 1)

\* section 4.5: aggregate(rawCounts, total, histogramBuckets)
Aggregate(raw) ==
    [built        |-> TRUE,
     material     |-> raw.material,
     white        |-> raw.white,
     cursed       |-> raw.cursed,
     draws        |-> raw.draws,
     blessed      |-> raw.blessed,
     black        |-> raw.black,
     white_pct    |-> Percentage(raw.white, raw.total),
     cursed_pct   |-> Percentage(raw.cursed, raw.total),
     draws_pct    |-> Percentage(raw.draws, raw.total),
     blessed_pct  |-> Percentage(raw.blessed, raw.total),
     black_pct    |-> Percentage(raw.black, raw.total),
     inconsistent |-> raw.total # raw.white + raw.cursed + raw.draws + raw.blessed + raw.black,
     longest      |-> Longest(raw.examples, 1),
     histogram    |-> Compress(raw.buckets, 1, 0, MaxCount(raw.buckets))]

\* an empty marker that does not tell the length of its run
HistogramRowsRunOfOne(st) ==
    [i \in 1..Len(st.histogram) |->
        IF st.histogram[i].empty # 0
        THEN [klass |-> "empty", title |-> <<1, "empty rows skipped">>]
        ELSE [klass |-> IF st.histogram[i].active THEN "active" ELSE None,
              width |-> st.histogram[i].width,
              title |-> <<st.histogram[i].num, st.histogram[i].ply>>]]

\* the rows that stand for a run of zero counts are left out
HistogramRowsSkipEmpty(st) ==
    LET bars == SelectSeq(st.histogram, LAMBDA row : row.empty = 0)
    IN  [i \in 1..Len(bars) |->
            [klass |-> IF bars[i].active THEN "active" ELSE None,
             width |-> bars[i].width,
             title |-> <<bars[i].num, bars[i].ply>>]]

\* views.py 447-458: an element per row of the histogram, the marker of
\* skipped rows where row["empty"] is not 0, a bar otherwise
HistogramRows(st) ==
    [i \in 1..Len(st.histogram) |->
        IF st.histogram[i].empty # 0
        THEN [klass |-> "empty", title |-> <<st.histogram[i].empty, "empty rows skipped">>]
        ELSE [klass |-> IF st.histogram[i].active THEN "active" ELSE None,
              width |-> st.histogram[i].width,
              title |-> <<st.histogram[i].num, st.histogram[i].ply>>]]

\* views.py 442-461: the histogram, left out without rows
HistogramBlock(st) ==
    IF st.histogram # <<>>
    THEN <<[kind |-> "histogram", rows |-> HistogramRows(st)]>>
    ELSE <<>>

\* the list of the longest phases rendered also when it is empty
LongestBlockAlways(material, st) ==
    <<[kind  |-> "longest",
       title |-> <<"Longest", material, "phases">>,
       items |-> [i \in 1..Len(st.longest) |->
                    [href |-> st.longest[i].fen, label |-> st.longest[i].label]]]>>

\* views.py 463-470: a link per entry of the longest list, left out
\* without entries
LongestBlock(material, st) ==
    IF st.longest # <<>>
    THEN <<[kind  |-> "longest",
            title |-> <<"Longest", material, "phases">>,
            items |-> [i \in 1..Len(st.longest) |->
                         [href |-> st.longest[i].fen, label |-> st.longest[i].label]]]>>
    ELSE <<>>

\* an outcome row that shows the count where the percentage belongs
OutcomeRowCountAsPct(klass, label, count, pct) ==
    IF count # 0
    THEN <<[klass |-> klass, label |-> label, count |-> count, pct |-> count]>>
    ELSE <<>>

\* an outcome row rendered when its percentage is not 0.0
OutcomeRowIfPct(klass, label, count, pct) ==
    IF pct # 0
    THEN <<[klass |-> klass, label |-> label, count |-> count, pct |-> pct]>>
    ELSE <<>>

\* views.py 474-498: one outcome row, left out when its count is 0
OutcomeRow(klass, label, count, pct) ==
    IF count # 0
    THEN <<[klass |-> klass, label |-> label, count |-> count, pct |-> pct]>>
    ELSE <<>>

\* views.py 473-499: the five outcome rows
OutcomeRows(st) ==
    OutcomeRow("li white-win", "White wins:", st.white, st.white_pct)
    \o OutcomeRow("li white-win frustrated", "Frustrated white wins:", st.cursed, st.cursed_pct)
    \o OutcomeRow("li draws", "Draws:", st.draws, st.draws_pct)
    \o OutcomeRow("li black-win frustrated", "Frustrated black wins:", st.blessed, st.blessed_pct)
    \o OutcomeRow("li black-win", "Black wins:", st.black, st.black_pct)

\* views.py 440-506: section_stats(render, stats), material being
\* render["material"]
SectionStats(material, st) ==
    [id        |-> "stats",
     histogram |-> HistogramBlock(st),
     longest   |-> LongestBlock(material, st),
     title     |-> <<material, "statistics (unique positions)">>,
     outcomes  |-> OutcomeRows(st),
     link      |-> <<"/stats/", material, ".json">>]

InitStats ==
    /\ counters \in Counters
    /\ stats = NoStats
    /\ section = NoSection
    /\ KibIdle
    /\ ProbeIdle
    /\ EndgamesIdle

\* the statistics record of the endgame class is built
AggregateCall ==
    /\ counters # NoCounters
    /\ stats = NoStats
    /\ stats' = Aggregate(counters)
    /\ UNCHANGED <<counters, section, store, listing>>
    /\ UNCHANGED <<num, text, divisions, position, render, page>>

\* the call section_stats(render, stats)
SectionStatsCall ==
    /\ stats # NoStats
    /\ section = NoSection
    /\ section' = SectionStats(stats.material, stats)
    /\ UNCHANGED <<counters, stats, store, listing>>
    /\ UNCHANGED <<num, text, divisions, position, render, page>>

NextStats == AggregateCall \/ SectionStatsCall

SpecStats == InitStats /\ [][NextStats]_vars

----------------------------------------------------------------------------
(* endgames (views.py 804-845): the list of the endgames by piece count    *)
(* and pawn count.  A material key is the sequence of its characters; the  *)
(* store is stats.STATS, a dict whose keys are read in its order.          *)

\* the largest number of keys in the store here
MaxKeys == 3

\* the material keys the store may hold, with 2 to 8 pieces, and what
\* stats.is_maximal tells of each
StoreEntries ==
    { [material |-> <<"K", "v", "K">>, maximal |-> FALSE],
      [material |-> <<"K", "Q", "v", "K">>, maximal |-> FALSE],
      [material |-> <<"K", "P", "v", "K">>, maximal |-> TRUE],
      [material |-> <<"K", "P", "v", "K", "P">>, maximal |-> FALSE],
      [material |-> <<"K", "Q", "R", "v", "K", "Q">>, maximal |-> FALSE],
      [material |-> <<"K", "Q", "P", "v", "K", "R">>, maximal |-> FALSE],
      [material |-> <<"K", "P", "P", "v", "K", "P">>, maximal |-> TRUE],
      [material |-> <<"K", "P", "P", "P", "P", "v", "K">>, maximal |-> FALSE],
      [material |-> <<"K", "Q", "R", "B", "v", "K", "N">>, maximal |-> FALSE],
      [material |-> <<"K", "P", "P", "P", "v", "K", "P", "P">>, maximal |-> TRUE],
      [material |-> <<"K", "Q", "R", "B", "N", "v", "K", "Q">>, maximal |-> FALSE],
      [material |-> <<"K", "Q", "R", "B", "N", "v", "K", "Q", "R">>, maximal |-> FALSE] }

\* the stores: up to MaxKeys entries of different keys, in any order
Stores ==
    { [loaded |-> TRUE, keys |-> q] :
        q \in { k \in UNION { [1..n -> StoreEntries] : n \in 0..MaxKeys } :
                  \A i, j \in 1..Len(k) : i # j => k[i] # k[j] } }

\* views.py 831: range(3, 7 + 1), the piece counts that have a section
MinPieces == 3
MaxPieces == 7

\* views.py 835: from this piece count on a section is split by pawns
SplitPieces == 5

\* views.py 806-810: the list item of a material key
Item(e) ==
    [klass  |-> IF e.maximal THEN "maximal" ELSE None,
     href   |-> <<"longest_fen", e.material>>,
     strong |-> e.maximal,
     text   |-> e.material]

\* the list items of the entries
Items(entries) == [i \in 1..Len(entries) |-> Item(entries[i])]

\* material.count("P")
CountP(material) == Cardinality({ i \in 1..Len(material) : material[i] = "P" })

\* the pawn counts without the largest
PawnCountsShort(pieces) == 0..(pieces - 3)

\* views.py 841: range(0, piece_count - 2 + 1)
PawnCounts(pieces) == 0..(pieces - 2)

\* views.py 836: the heading of the endgames with a number of pawns
PawnHeading(pawns) ==
    IF pawns = 0 THEN <<"No pawns">>
    ELSE IF pawns = 1 THEN <<"1 pawn">> ELSE <<pawns, "pawns">>

\* views.py 833-841: the lists of a section: one list below SplitPieces
\* pieces, a list per pawn count from there on
EndgameLists(keys, pieces) ==
    IF pieces < SplitPieces
    THEN <<[heading |-> <<>>, pawns |-> NoInt,
            items |-> Items(SelectSeq(keys, LAMBDA e : Len(e.material) = pieces + 1))]>>
    ELSE [k \in 1..Cardinality(PawnCounts(pieces)) |->
            [heading |-> PawnHeading(k - 1), pawns |-> <<k - 1>>,
             items |-> Items(SelectSeq(keys,
                          LAMBDA e : Len(e.material) = pieces + 1 /\ CountP(e.material) = k - 1))]]

\* views.py 830-843: the sections of the page, one per piece count
Endgames(st) ==
    [rendered |-> TRUE,
     sections |-> [k \in 1..(MaxPieces - MinPieces + 1) |->
                     [id     |-> <<k + MinPieces - 1, "-pieces">>,
                      pieces |-> k + MinPieces - 1,
                      lists  |-> EndgameLists(st.keys, k + MinPieces - 1)]]]

InitEndgames ==
    /\ store \in Stores
    /\ listing = NoListing
    /\ KibIdle
    /\ ProbeIdle
    /\ StatsIdle

\* the call endgames(development=...)
EndgamesCall ==
    /\ store # NoStore
    /\ listing = NoListing
    /\ listing' = Endgames(store)
    /\ UNCHANGED <<store, counters, stats, section>>
    /\ UNCHANGED <<num, text, divisions, position, render, page>>

NextEndgames == EndgamesCall

SpecEndgames == InitEndgames /\ [][NextEndgames]_vars

----------------------------------------------------------------------------
(* Properties of the probe and of xhr_probe, checked under SpecProbe.      *)

\* the move list of a Render for a category
RenderList(r, c) ==
    IF c = "winning" THEN r.winning_moves
    ELSE IF c = "unknown" THEN r.unknown_moves
    ELSE IF c = "cursed" THEN r.cursed_moves
    ELSE IF c = "drawing" THEN r.drawing_moves
    ELSE IF c = "blessed" THEN r.blessed_moves
    ELSE r.losing_moves

\* the notations of a move list of a Render, in order
ListUcis(r, c) == [i \in 1..Len(RenderList(r, c)) |-> RenderList(r, c)[i].uci]

\* the rendered group of a category
Group(pg, c) == CHOOSE g \in { pg.groups[i] : i \in 1..Len(pg.groups) } : g.id = c

\* the notations of the moves rendered in a group, in order
GroupUcis(pg, c) ==
    [i \in 1..Len(Group(pg, c).children) |-> Group(pg, c).children[i].data_uci]

\* how often u occurs in the sequence q
Occurrences(q, u) == Cardinality({ i \in 1..Len(q) : q[i] = u })

\* the legal move of the position with the notation u
LegalMove(u) ==
    position.moves[CHOOSE i \in 1..Len(position.moves) : position.moves[i].uci = u]

\* the legal moves of the position that have category c, in their order
MovesOfCategory(c) ==
    LET sub == SelectSeq(position.moves, LAMBDA m : Category(m.probe) = c)
    IN  [i \in 1..Len(sub) |-> sub[i].uci]

\* the rendered move a shows a badge "DTM n"
ShowsDistance(a) ==
    \E k \in 1..Len(a.children) :
        a.children[k].klass = "badge" /\ a.children[k].text[1] = "DTM"

\* C4: a rendered move shows a distance badge only when its distance is
\* present and its category is neither drawing nor unknown; a distance of
\* zero counts as absent, the badge is then left out of the markup.
DistanceBadgeOnlyWhenPresent ==
    page # NoPage =>
        \A c \in Categories :
            \A i \in 1..Len(Group(page, c).children) :
                LET a == Group(page, c).children[i]
                    m == LegalMove(a.data_uci)
                IN  ShowsDistance(a) =>
                        /\ c \notin {"drawing", "unknown"}
                        /\ m.probe # NoProbe
                        /\ m.probe.dtz # NoInt
                        /\ m.probe.dtz[1] # 0
                        /\ Len(a.children) = 3
                        /\ a.children[2].text = <<"DTM", Abs(m.probe.dtz[1])>>

\* a winning move with distance 0 is rendered without the distance badge,
\* beside a move that shows its distance
DistanceBadgeWitness ==
    /\ page # NoPage
    /\ \E i \in 1..Len(Group(page, "winning").children) :
          LET a == Group(page, "winning").children[i]
          IN  /\ LegalMove(a.data_uci).probe.dtz = <<0>>
              /\ ~ShowsDistance(a)
              /\ Len(a.children) = 2
    /\ \E c \in Categories : \E i \in 1..Len(Group(page, c).children) :
          ShowsDistance(Group(page, c).children[i])

\* C5: every legal move of a legal position has exactly one of the six
\* categories: it occurs once in the six move lists of the Render taken
\* together and once in the six rendered groups taken together, and the
\* lists and the groups hold legal moves only.
CategoriesPartitionMoves ==
    (page # NoPage /\ position.legal) =>
        LET legal == { position.moves[i].uci : i \in 1..Len(position.moves) }
            InLists(u) == { c \in Categories : Occurrences(ListUcis(render, c), u) > 0 }
            InGroups(u) == { c \in Categories : Occurrences(GroupUcis(page, c), u) > 0 }
        IN  /\ \A u \in legal :
                /\ Cardinality(InLists(u)) = 1
                /\ \A c \in InLists(u) : Occurrences(ListUcis(render, c), u) = 1
                /\ Cardinality(InGroups(u)) = 1
                /\ \A c \in InGroups(u) : Occurrences(GroupUcis(page, c), u) = 1
            /\ \A c \in Categories :
                /\ \A i \in 1..Len(ListUcis(render, c)) : ListUcis(render, c)[i] \in legal
                /\ \A i \in 1..Len(GroupUcis(page, c)) : GroupUcis(page, c)[i] \in legal

\* a legal position with MaxMoves moves in three categories is rendered
CategoriesPartitionWitness ==
    /\ page # NoPage /\ position.legal
    /\ Len(position.moves) = MaxMoves
    /\ Cardinality({ c \in Categories : GroupUcis(page, c) # <<>> }) >= 3

\* C6: within each category the moves are shown in the order of the legal
\* moves: each move list and each rendered group of a legal position is the
\* subsequence of the legal moves that have the category.
MovesKeepLegalOrder ==
    (page # NoPage /\ position.legal) =>
        \A c \in Categories :
            /\ ListUcis(render, c) = MovesOfCategory(c)
            /\ GroupUcis(page, c) = MovesOfCategory(c)

\* two winning moves enumerated in descending notation, a move of another
\* category between them, are rendered in that order
MovesKeepLegalOrderWitness ==
    /\ page # NoPage /\ position.legal
    /\ Len(position.moves) >= 3
    /\ Len(GroupUcis(page, "winning")) = 2
    /\ GroupUcis(page, "winning")[1] = position.moves[1].uci
    /\ GroupUcis(page, "winning")[2] = position.moves[3].uci
    /\ GroupUcis(page, "winning")[1] > GroupUcis(page, "winning")[2]

\* C7: a position that is not legal has the status illegal and nothing of
\* it is processed: the six move lists are empty, no move is shown, and the
\* page says that the position is not legal.
IllegalNotProcessed ==
    (page # NoPage /\ ~position.legal) =>
        /\ render.status = "illegal"
        /\ render.illegal
        /\ \A c \in Categories :
             RenderList(render, c) = <<>> /\ Group(page, c).children = <<>>
        /\ page.status.text = "illegal"
        /\ page.info = <<IllegalText>>

\* an illegal position whose moves all have probe results is rendered
IllegalNotProcessedWitness ==
    /\ page # NoPage /\ ~position.legal
    /\ Len(position.moves) = MaxMoves
    /\ \A i \in 1..Len(position.moves) : position.moves[i].probe # NoProbe
    /\ page.info = <<IllegalText>>

\* C8: for a legal position that is a draw by insufficient material the
\* status is insufficient-material and its explanation is the one shown,
\* whatever the probe results, the unknown moves and the flags cursed_win
\* and blessed_loss are.
InsufficientMaterialOverrides ==
    (page # NoPage /\ position.legal /\ position.insufficient) =>
        /\ render.status = "insufficient-material"
        /\ render.insufficient_material
        /\ page.status.text = "insufficient-material"
        /\ page.info = <<InsufficientText>>

\* a draw by insufficient material with an unknown move and a tablebase
\* value of cursed win is rendered
InsufficientMaterialWitness ==
    /\ page # NoPage /\ position.legal /\ position.insufficient
    /\ render.unknown_moves # <<>>
    /\ render.cursed_win
    /\ page.info = <<InsufficientText>>

\* the header of the page has the class k
HeaderHasKlass(pg, k) == \E i \in 1..Len(pg.status.klass) : pg.status.klass[i] = k

\* C9: the frustrated flag is true exactly when the status is cursed-win or
\* blessed-loss, and the status header has the class "frustrated" exactly
\* then.
FrustratedIffCursedOrBlessed ==
    page # NoPage =>
        /\ render.frustrated <=> render.status \in {"cursed-win", "blessed-loss"}
        /\ HeaderHasKlass(page, "frustrated")
               <=> page.status.text \in {"cursed-win", "blessed-loss"}

\* a blessed loss is rendered with the class "frustrated"
FrustratedWitness ==
    /\ page # NoPage
    /\ render.status = "blessed-loss"
    /\ HeaderHasKlass(page, "frustrated")

\* C10: a legal move without a probe result is in category unknown, and
\* when no legal move of a legal position that is not terminal has a probe
\* result the status is unknown, all moves are in the unknown list and the
\* other five lists are empty; so it is rendered.
MissingProbeDataIsUnknown ==
    (page # NoPage /\ position.legal) =>
        /\ \A i \in 1..Len(position.moves) :
             position.moves[i].probe = NoProbe =>
                /\ Occurrences(ListUcis(render, "unknown"), position.moves[i].uci) = 1
                /\ Occurrences(GroupUcis(page, "unknown"), position.moves[i].uci) = 1
        /\ ( /\ ~position.insufficient
             /\ position.moves # <<>>
             /\ \A i \in 1..Len(position.moves) : position.moves[i].probe = NoProbe )
           => /\ render.status = "unknown"
              /\ page.status.text = "unknown"
              /\ ListUcis(render, "unknown") = [i \in 1..Len(position.moves) |-> position.moves[i].uci]
              /\ GroupUcis(page, "unknown") = [i \in 1..Len(position.moves) |-> position.moves[i].uci]
              /\ \A c \in Categories \ {"unknown"} :
                    RenderList(render, c) = <<>> /\ Group(page, c).children = <<>>

\* a legal position with MaxMoves moves, none with a probe result, is rendered
MissingProbeDataWitness ==
    /\ page # NoPage /\ position.legal /\ ~position.insufficient
    /\ Len(position.moves) = MaxMoves
    /\ \A i \in 1..Len(position.moves) : position.moves[i].probe = NoProbe
    /\ render.status = "unknown"
    /\ Len(Group(page, "unknown").children) = MaxMoves

TerminalAsExpected ==
    IF position.check
    THEN /\ render.status = "checkmate"
         /\ render.winning_side = OtherColor(position.turn)
         /\ page.status.text = "checkmate"
         /\ page.status.klass =
                IF position.turn = "white" THEN <<"black-win">> ELSE <<"white-win">>
    ELSE /\ render.status = "stalemate"
         /\ render.winning_side = None
         /\ page.status.text = "stalemate"
         /\ page.status.klass = <<>>

\* C12 as claimed: every position in which the side to move has no legal
\* move resolves to checkmate when the mover is in check and to stalemate
\* when not.
NoMovesIsCheckmateOrStalemate ==
    (page # NoPage /\ position.moves = <<>>) => TerminalAsExpected

\* C12, amended: a legal position that is not a draw by insufficient
\* material and in which the side to move has no legal move resolves to
\* checkmate (a loss of the mover) when the mover is in check and to
\* stalemate (a draw) when not.
LegalNoMovesIsCheckmateOrStalemate ==
    (page # NoPage /\ position.legal /\ ~position.insufficient /\ position.moves = <<>>)
        => TerminalAsExpected

\* a checkmate of white is rendered as a win of black
CheckmateWitness ==
    /\ page # NoPage /\ position.legal /\ ~position.insufficient
    /\ position.moves = <<>> /\ position.check /\ position.turn = "white"
    /\ page.status.text = "checkmate"
    /\ HeaderHasKlass(page, "black-win")

\* C16: an illegal position is an outcome that is displayed: for a Render
\* of an illegal position the call of xhr_probe has a result, and the
\* result is a section with the status line, the six move groups and the
\* message that the position is not a legal chess position.
IllegalIsDisplayed ==
    /\ (render # NoRender /\ render.illegal /\ page = NoPage) => ENABLED XhrProbeCall
    /\ (page # NoPage /\ render.illegal) =>
          /\ page.status.id = "status"
          /\ page.status.text = render.status
          /\ Len(page.groups) = 6
          /\ \E i \in 1..Len(page.info) : page.info[i] = IllegalText

\* an illegal position with the mover in check and without legal moves is
\* rendered with the message
IllegalIsDisplayedWitness ==
    /\ page # NoPage /\ render.illegal
    /\ position.check /\ position.moves = <<>>
    /\ page.info = <<IllegalText>>

\* the explanation the flags of a Render choose, by priority
ChosenExplanation(r) ==
    IF r.illegal THEN <<IllegalText>>
    ELSE IF r.insufficient_material THEN <<InsufficientText>>
    ELSE IF r.unknown_moves # <<>> THEN <<UnknownText>>
    ELSE IF r.blessed_loss THEN <<BlessedLossText>>
    ELSE IF r.cursed_win THEN <<CursedWinText>>
    ELSE <<>>

\* C17 as claimed: the info block shows at most one explanation, the one
\* chosen by the priority illegal, insufficient material, unknown moves,
\* blessed loss, cursed win, and nothing when none of them holds.
InfoShowsOneExplanation ==
    page # NoPage =>
        /\ Len(page.info) <= 1
        /\ page.info = ChosenExplanation(render)

\* C17, amended: the info block shows at most one of the five explanations,
\* the one chosen by that priority, and nothing else but the paragraph
\* "Chess is not yet solved.", which precedes the notice of the unknown
\* moves when the position is the starting position; the explanations of
\* blessed loss and cursed win are never shown together, and neither is
\* shown while a move is unknown.
InfoShowsChosenExplanation ==
    page # NoPage =>
        LET notice == /\ ~render.illegal /\ ~render.insufficient_material
                      /\ render.unknown_moves # <<>>
        IN  /\ SelectSeq(page.info, LAMBDA t : t # NotSolvedText) = ChosenExplanation(render)
            /\ Len(page.info) <= 2
            /\ (notice /\ render.fen = StartingFen) => page.info = <<NotSolvedText, UnknownText>>
            /\ ~(notice /\ render.fen = StartingFen) => Len(page.info) <= 1
            /\ ~\E i, j \in 1..Len(page.info) :
                   page.info[i] = BlessedLossText /\ page.info[j] = CursedWinText
            /\ render.unknown_moves # <<>> =>
                   \A i \in 1..Len(page.info) :
                       page.info[i] \notin {BlessedLossText, CursedWinText}

\* a blessed loss with a move that is unknown is rendered with the notice
\* of the unknown moves
InfoShowsChosenWitness ==
    /\ page # NoPage
    /\ render.blessed_loss
    /\ render.unknown_moves # <<>>
    /\ page.info = <<UnknownText>>

\* C21: xhr_probe renders the link to the DTZ mainline and the link to
\* lichess.org if and only if the position is not illegal, whatever the
\* other flags and the move lists are: both links for every Render that
\* is not illegal, no link for an illegal one.
MetaLinksIffNotIllegal ==
    page # NoPage =>
        /\ ~render.illegal => page.links = <<"Download DTZ mainline", "lichess.org">>
        /\ render.illegal => page.links = <<>>
        /\ render.illegal <=> ~position.legal

\* a draw by insufficient material without legal moves is rendered with
\* both links
MetaLinksWitness ==
    /\ page # NoPage
    /\ ~render.illegal
    /\ render.insufficient_material
    /\ position.moves = <<>>
    /\ Len(page.links) = 2

----------------------------------------------------------------------------
(* Properties of the statistics and of section_stats, checked under        *)
(* SpecStats.                                                              *)

\* C13: when the total of an endgame class is 0 the five percentages of
\* its record are 0.0, found without a division, and every outcome row
\* that is rendered shows 0.0 percent.
PercentagesOfZeroTotal ==
    (section # NoSection /\ counters.total = 0) =>
        /\ stats.white_pct = 0 /\ stats.cursed_pct = 0 /\ stats.draws_pct = 0
        /\ stats.blessed_pct = 0 /\ stats.black_pct = 0
        /\ \A i \in 1..Len(section.outcomes) : section.outcomes[i].pct = 0

\* counters with a total of 0 beside five counts that are not 0 are
\* rendered as five rows
PercentagesOfZeroTotalWitness ==
    /\ section # NoSection
    /\ counters.total = 0
    /\ counters.white = BigCount
    /\ Len(section.outcomes) = 5
    /\ section.outcomes[1].count = BigCount /\ section.outcomes[1].pct = 0

\* the rendered rows from the i-th on stand for the ply indices from next
\* on, each once and in ascending order: a marker for as many indices of
\* count 0 as it tells, a bar for its own index, whose count is not 0
RECURSIVE RowsCover(_, _, _)
RowsCover(rows, i, next) ==
    IF i > Len(rows) THEN next = Len(counters.buckets)
    ELSE IF rows[i].klass = "empty"
    THEN LET run == rows[i].title[1]
         IN  /\ run >= 1
             /\ next + run <= Len(counters.buckets)
             /\ \A ply \in next..(next + run - 1) : counters.buckets[ply + 1] = 0
             /\ RowsCover(rows, i + 1, next + run)
    ELSE /\ next < Len(counters.buckets)
         /\ rows[i].title[2] = next
         /\ counters.buckets[next + 1] # 0
         /\ rows[i].title[1] = counters.buckets[next + 1]
         /\ RowsCover(rows, i + 1, next + 1)

\* C14: the compression of a histogram loses no ply index: the rows, in
\* order, a marker standing for the run of indices it tells and a bar for
\* its own index, cover every index of the histogram once and in ascending
\* order, the indices of count 0 under markers only.
HistogramCompressionLossless ==
    (section # NoSection /\ counters.buckets # <<>>) =>
        /\ Len(section.histogram) = 1
        /\ RowsCover(section.histogram[1].rows, 1, 0)

\* a histogram that begins with a run of two zero counts is rendered as a
\* marker of two rows and a bar
HistogramCompressionWitness ==
    /\ section # NoSection
    /\ Len(counters.buckets) = MaxPlies
    /\ counters.buckets[1] = 0 /\ counters.buckets[2] = 0
    /\ counters.buckets[MaxPlies] # 0
    /\ Len(section.histogram) = 1
    /\ section.histogram[1].rows[1].klass = "empty"
    /\ section.histogram[1].rows[1].title[1] >= 2

\* C15: the longest list holds an entry for each combination of side to
\* move and 50-move limitation that has an example, and no other entry;
\* the view renders a link per entry in the order of the list and leaves
\* the block out when the list is empty.
LongestOnlyRealEntries ==
    section # NoSection =>
        LET found == SelectSeq([i \in 1..Len(Combinations) |-> i],
                               LAMBDA i : counters.examples[i].found)
        IN  /\ Len(stats.longest) = Len(found)
            /\ \A j \in 1..Len(found) :
                 /\ stats.longest[j].fen = <<"fen", found[j]>>
                 /\ stats.longest[j].label =
                        <<Combinations[found[j]], counters.examples[found[j]].ply>>
            /\ IF stats.longest = <<>> THEN section.longest = <<>>
               ELSE /\ Len(section.longest) = 1
                    /\ Len(section.longest[1].items) = Len(stats.longest)
                    /\ \A j \in 1..Len(stats.longest) :
                         /\ section.longest[1].items[j].href = stats.longest[j].fen
                         /\ section.longest[1].items[j].label = stats.longest[j].label

\* only the second and the last combination have an example; two links are
\* rendered
LongestWitness ==
    /\ section # NoSection
    /\ ~counters.examples[1].found /\ counters.examples[2].found
    /\ ~counters.examples[3].found /\ counters.examples[4].found
    /\ Len(section.longest) = 1
    /\ Len(section.longest[1].items) = 2
    /\ section.longest[1].items[2].href = <<"fen", 4>>

\* C18: every row of the histogram is rendered as one element, in the
\* order of the rows: the marker with the number of skipped rows if and
\* only if the row's empty count is not 0, a bar with its width, ply and
\* count otherwise; the histogram block is rendered only when the record
\* has a histogram with rows.
HistogramRowsRendered ==
    section # NoSection =>
        IF stats.histogram = <<>> THEN section.histogram = <<>>
        ELSE /\ Len(section.histogram) = 1
             /\ Len(section.histogram[1].rows) = Len(stats.histogram)
             /\ \A i \in 1..Len(stats.histogram) :
                  LET row == stats.histogram[i]
                      el == section.histogram[1].rows[i]
                  IN  /\ el.klass = "empty" <=> row.empty # 0
                      /\ row.empty # 0 => el.title[1] = row.empty
                      /\ row.empty = 0 =>
                            /\ el.width = row.width
                            /\ el.title = <<row.num, row.ply>>

\* a histogram with a marker between two bars of different width is
\* rendered
HistogramRowsWitness ==
    /\ section # NoSection
    /\ Len(stats.histogram) = 3
    /\ stats.histogram[2].empty # 0
    /\ Len(section.histogram) = 1
    /\ section.histogram[1].rows[2].klass = "empty"
    /\ section.histogram[1].rows[1].klass = "active"
    /\ section.histogram[1].rows[1].width < section.histogram[1].rows[3].width

\* C19: each of the five outcome rows (white wins, frustrated white wins,
\* draws, frustrated black wins, black wins) is rendered if and only if
\* its count is not 0, in that order, with its own count and percentage;
\* no row is rendered when the five counts are 0.
OutcomeRowsIffCount ==
    section # NoSection =>
        LET rows == << [klass |-> "li white-win", label |-> "White wins:",
                        count |-> stats.white, pct |-> stats.white_pct],
                       [klass |-> "li white-win frustrated", label |-> "Frustrated white wins:",
                        count |-> stats.cursed, pct |-> stats.cursed_pct],
                       [klass |-> "li draws", label |-> "Draws:",
                        count |-> stats.draws, pct |-> stats.draws_pct],
                       [klass |-> "li black-win frustrated", label |-> "Frustrated black wins:",
                        count |-> stats.blessed, pct |-> stats.blessed_pct],
                       [klass |-> "li black-win", label |-> "Black wins:",
                        count |-> stats.black, pct |-> stats.black_pct] >>
        IN  section.outcomes = SelectSeq(rows, LAMBDA r : r.count # 0)

\* one frustrated white win among BigCount white wins is rendered as a row
\* of 0.0 percent, after the row of the white wins
OutcomeRowsWitness ==
    /\ section # NoSection
    /\ counters.total = BigCount + 1
    /\ Len(section.outcomes) = 2
    /\ section.outcomes[1].label = "White wins:"
    /\ section.outcomes[2].label = "Frustrated white wins:"
    /\ section.outcomes[2].count = 1 /\ section.outcomes[2].pct = 0

----------------------------------------------------------------------------
(* Properties of endgames, checked under SpecEndgames.                     *)

\* the places of the page that list the material: section and list
Places(material) ==
    { <<k, l, i>> \in
        UNION { UNION { { <<k, l, i>> : i \in 1..Len(listing.sections[k].lists[l].items) } :
                          l \in 1..Len(listing.sections[k].lists) } :
                  k \in 1..Len(listing.sections) } :
        listing.sections[k].lists[l].items[i].text = material }

\* the materials a list shows, in order
ListedMaterials(list) == [i \in 1..Len(list.items) |-> list.items[i].text]

\* the materials of the store, in its order
StoreMaterials == [i \in 1..Len(store.keys) |-> store.keys[i].material]

\* C20: every material key of the store with 3 to 7 pieces is listed once:
\* in the section of its piece count (the length of the key less 1) and,
\* from 5 pieces on, in the list of its pawn count, which is one of
\* 0 .. pieces - 2; a key with another piece count is listed nowhere, and
\* every list keeps the order of the store.
EndgamesListedOnce ==
    listing # NoListing =>
        /\ \A n \in 1..Len(store.keys) :
             LET material == store.keys[n].material
                 pieces == Len(material) - 1
             IN  IF pieces \in 3..7
                 THEN /\ Cardinality(Places(material)) = 1
                      /\ \A pl \in Places(material) :
                           /\ listing.sections[pl[1]].pieces = pieces
                           /\ pieces >= 5 =>
                                /\ listing.sections[pl[1]].lists[pl[2]].pawns = <<CountP(material)>>
                                /\ CountP(material) \in 0..(pieces - 2)
                 ELSE Places(material) = {}
        /\ \A k \in 1..Len(listing.sections) :
             \A l \in 1..Len(listing.sections[k].lists) :
                LET shown == ListedMaterials(listing.sections[k].lists[l])
                IN  shown = SelectSeq(StoreMaterials,
                                LAMBDA m : \E i \in 1..Len(shown) : shown[i] = m)

\* a store with a key of 5 pieces and 3 pawns, a key of 8 pieces and a key
\* of 3 pieces is listed: the first under 5 pieces and 3 pawns
EndgamesListedWitness ==
    /\ listing # NoListing
    /\ Len(store.keys) = 3
    /\ store.keys[1].material = <<"K", "P", "P", "v", "K", "P">>
    /\ Len(store.keys[2].material) = 9
    /\ Len(store.keys[3].material) = 4
    /\ listing.sections[3].lists[4].items # <<>>
    /\ listing.sections[1].lists[1].items # <<>>

====
